---------------------------- MODULE Spec2Model ----------------------------
(***************************************************************************)
(* Model of include/leveldb/statistics.h: the ticker / histogram name      *)
(* tables, the Ticker counter, the Statistics registry interface and the   *)
(* RecordTick convenience wrapper.                                         *)
(*                                                                         *)
(* Integer widths are scaled down so that the model checker can enumerate  *)
(* them: the 64-bit counter is CounterBits wide, the 32-bit int parameter  *)
(* of Ticker::recordTick(int) is IntBits wide, and long has the width of   *)
(* the counter (LP64).  Only IntBits < CounterBits matters.                *)
(***************************************************************************)
EXTENDS Integers, Sequences, FiniteSets

(***************************************************************************)
(* enum Tickers                                                            *)
(***************************************************************************)
BLOCK_CACHE_MISS == 0
BLOCK_CACHE_HIT == 1
BLOOM_FILTER_USEFUL == 2
COMPACTION_KEY_DROP_NEWER_ENTRY == 3
COMPACTION_KEY_DROP_OBSOLETE == 4
COMPACTION_KEY_DROP_USER == 5
NUMBER_KEYS_WRITTEN == 6
NUMBER_KEYS_READ == 7
BYTES_WRITTEN == 8
BYTES_READ == 9
NO_FILE_CLOSES == 10
NO_FILE_OPENS == 11
NO_FILE_ERRORS == 12
STALL_L0_SLOWDOWN_MICROS == 13
STALL_MEMTABLE_COMPACTION_MICROS == 14
STALL_L0_NUM_FILES_MICROS == 15
RATE_LIMIT_DELAY_MILLIS == 16
NO_ITERATORS == 17
NUMBER_MULTIGET_CALLS == 18
NUMBER_MULTIGET_KEYS_READ == 19
NUMBER_MULTIGET_BYTES_READ == 20
TICKER_ENUM_MAX == 21

TickersNameMapMissingEntry ==
  << <<BLOCK_CACHE_MISS, "levledb.block.cache.miss">>,
     <<BLOCK_CACHE_HIT, "rocksdb.block.cache.hit">>,
     <<BLOOM_FILTER_USEFUL, "rocksdb.bloom.filter.useful">>,
     <<COMPACTION_KEY_DROP_NEWER_ENTRY, "rocksdb.compaction.key.drop.new">>,
     <<COMPACTION_KEY_DROP_OBSOLETE, "rocksdb.compaction.key.drop.obsolete">>,
     <<COMPACTION_KEY_DROP_USER, "rocksdb.compaction.key.drop.user">>,
     <<NUMBER_KEYS_WRITTEN, "rocksdb.number.keys.written">>,
     <<NUMBER_KEYS_READ, "rocksdb.number.keys.read">>,
     <<BYTES_WRITTEN, "rocksdb.bytes.written">>,
     <<BYTES_READ, "rocksdb.bytes.read">>,
     <<NO_FILE_CLOSES, "rocksdb.no.file.closes">>,
     <<NO_FILE_OPENS, "rocksdb.no.file.opens">>,
     <<NO_FILE_ERRORS, "rocksdb.no.file.errors">>,
     <<STALL_L0_SLOWDOWN_MICROS, "rocksdb.l0.slowdown.micros">>,
     <<STALL_MEMTABLE_COMPACTION_MICROS, "rocksdb.memtable.compaction.micros">>,
     <<STALL_L0_NUM_FILES_MICROS, "rocksdb.l0.num.files.stall.micros">>,
     <<RATE_LIMIT_DELAY_MILLIS, "rocksdb.rate.limit.dleay.millis">>,
     <<NO_ITERATORS, "rocksdb.num.iterators">>,
     <<NUMBER_MULTIGET_CALLS, "rocksdb.number.multiget.get">>,
     <<NUMBER_MULTIGET_CALLS, "rocksdb.number.multiget.keys.read">>,
     <<NUMBER_MULTIGET_BYTES_READ, "rocksdb.number.multiget.bytes.read">> >>

\* const std::vector<std::pair<Tickers, std::string>> TickersNameMap
TickersNameMap ==
  << <<BLOCK_CACHE_MISS, "levledb.block.cache.miss">>,
     <<BLOCK_CACHE_HIT, "rocksdb.block.cache.hit">>,
     <<BLOOM_FILTER_USEFUL, "rocksdb.bloom.filter.useful">>,
     <<COMPACTION_KEY_DROP_NEWER_ENTRY, "rocksdb.compaction.key.drop.new">>,
     <<COMPACTION_KEY_DROP_OBSOLETE, "rocksdb.compaction.key.drop.obsolete">>,
     <<COMPACTION_KEY_DROP_USER, "rocksdb.compaction.key.drop.user">>,
     <<NUMBER_KEYS_WRITTEN, "rocksdb.number.keys.written">>,
     <<NUMBER_KEYS_READ, "rocksdb.number.keys.read">>,
     <<BYTES_WRITTEN, "rocksdb.bytes.written">>,
     <<BYTES_READ, "rocksdb.bytes.read">>,
     <<NO_FILE_CLOSES, "rocksdb.no.file.closes">>,
     <<NO_FILE_OPENS, "rocksdb.no.file.opens">>,
     <<NO_FILE_ERRORS, "rocksdb.no.file.errors">>,
     <<STALL_L0_SLOWDOWN_MICROS, "rocksdb.l0.slowdown.micros">>,
     <<STALL_MEMTABLE_COMPACTION_MICROS, "rocksdb.memtable.compaction.micros">>,
     <<STALL_L0_NUM_FILES_MICROS, "rocksdb.l0.num.files.stall.micros">>,
     <<RATE_LIMIT_DELAY_MILLIS, "rocksdb.rate.limit.dleay.millis">>,
     <<NO_ITERATORS, "rocksdb.num.iterators">>,
     <<NUMBER_MULTIGET_CALLS, "rocksdb.number.multiget.get">>,
     <<NUMBER_MULTIGET_KEYS_READ, "rocksdb.number.multiget.keys.read">>,
     <<NUMBER_MULTIGET_BYTES_READ, "rocksdb.number.multiget.bytes.read">> >>

(***************************************************************************)
(* enum Histograms                                                         *)
(***************************************************************************)
DB_GET == 0
DB_WRITE == 1
COMPACTION_TIME == 2
TABLE_SYNC_MICROS == 3
COMPACTION_OUTFILE_SYNC_MICROS == 4
WAL_FILE_SYNC_MICROS == 5
MANIFEST_FILE_SYNC_MICROS == 6
TABLE_OPEN_IO_MICROS == 7
DB_MULTIGET == 8
HISTOGRAM_ENUM_MAX == 9

\* const std::vector<std::pair<Histograms, std::string>> HistogramsNameMap
HistogramsNameMap ==
  << <<DB_GET, "rocksdb.db.get.micros">>,
     <<DB_WRITE, "rocksdb.db.write.micros">>,
     <<COMPACTION_TIME, "rocksdb.compaction.times.micros">>,
     <<TABLE_SYNC_MICROS, "rocksdb.table.sync.micros">>,
     <<COMPACTION_OUTFILE_SYNC_MICROS, "rocksdb.compaction.outfile.sync.micros">>,
     <<WAL_FILE_SYNC_MICROS, "rocksdb.wal.file.sync.micros">>,
     <<MANIFEST_FILE_SYNC_MICROS, "rocksdb.manifest.file.sync.micros">>,
     <<TABLE_OPEN_IO_MICROS, "rocksdb.table.open.io.micros">>,
     <<DB_MULTIGET, "rocksdb.db.multiget.micros">> >>

\* The two assertions at the head of RecordTick.
CatalogAssertions ==
  /\ Len(HistogramsNameMap) = HISTOGRAM_ENUM_MAX - 1
  /\ Len(TickersNameMap) = TICKER_ENUM_MAX - 1

(***************************************************************************)
(* Bounds of the model                                                     *)
(***************************************************************************)
CounterBits == 4        \* scaled width of std::atomic_uint_fast64_t count_
IntBits == 2            \* scaled width of int
MaxCalls == 3           \* recording calls issued in one run, by all threads
NumThreads == 2         \* concurrent caller threads
NumBuckets == 3         \* buckets of the histogram
MaxAdds == 3            \* add() calls begun in one run

CounterModulus == 2 ^ CounterBits
IntModulus == 2 ^ IntBits
IntMax == 2 ^ (IntBits - 1) - 1

Threads == 1 .. NumThreads
\* uint64_t count = 1 of RecordTick, uint64_t count = 0 of Statistics::recordTick
RecordTickDefaultCount == 1
StatisticsRecordTickDefaultCount == 0
\* the tickers whose Ticker objects the model keeps
ModelTickers == {BLOCK_CACHE_MISS, BLOCK_CACHE_HIT}
\* uint64_t arguments tried: the two defaults, the first value above INT_MAX,
\* and a value with a bit above the width of int
U64Inputs == {StatisticsRecordTickDefaultCount, RecordTickDefaultCount,
              IntMax + 1, IntModulus + 1}
\* int arguments tried on Ticker::recordTick(int)
IntInputs == {0 - 1, IntMax}
\* the shared_ptr<Statistics> a caller passes: empty, or the registry
Handles == {"null", "present"}

(***************************************************************************)
(* Integer conversions                                                     *)
(***************************************************************************)
\* uint64_t -> int at the call of Ticker::recordTick(int): the value modulo
\* 2^width(int), read as two's complement
U64ToInt(c) ==
  LET r == c % IntModulus
  IN  IF r > IntMax THEN r - IntModulus ELSE r

\* int -> uint64_t in count_ += count
IntToU64(d) == IF d < 0 THEN CounterModulus + d ELSE d

\* uint64_t -> long in the return of getTickerCount
U64ToLong(u) == IF u >= CounterModulus \div 2 THEN u - CounterModulus ELSE u

VARIABLES
  ndebug,      \* the build: TRUE when assert() is compiled out
  aborted,     \* a failed assert() has ended the process
  count,       \* count[t]: Ticker::count_ of ticker t
  requested,   \* history: sum of the increments callers asked for, per ticker
  calls,       \* calls[th]: recording calls thread th has completed
  ret,         \* the value returned by the read that has just returned
  buckets,     \* histogram: buckets[b], the count of bucket b
  sum,         \* histogram: running sum of the samples
  sumSquares,  \* histogram: running sum of the squared samples
  num,         \* histogram: sample count
  hpc,         \* hpc[th]: the step of add() thread th is at
  hval,        \* hval[th]: the value thread th is adding
  started,     \* history: add() calls begun since construction
  added,       \* history: added[v], completed add(v) calls since the last clear
  cleared,     \* history: clear() was called and no add() has begun since
  overlapped,  \* history: two add() calls were in flight together
  snapshot     \* the HistogramData filled in by the data() that has just returned

tickerVars == <<ndebug, aborted, count, requested, calls, ret>>
histVars == <<buckets, sum, sumSquares, num, hpc, hval, started, added,
              cleared, overlapped, snapshot>>
vars == <<ndebug, aborted, count, requested, calls, ret, buckets, sum,
          sumSquares, num, hpc, hval, started, added, cleared, overlapped,
          snapshot>>

(***************************************************************************)
(* Histogram engine: the fields and operations behind the abstract class   *)
(* Histogram.  Values of HistogramData are kept in hundredths.             *)
(***************************************************************************)
Buckets == 0 .. NumBuckets - 1
\* upper bound of bucket b: boundaries grow geometrically from 1
BucketLimit(b) == 2 ^ b
BucketLower(b) == IF b = 0 THEN 0 ELSE BucketLimit(b - 1)
Ceiling == BucketLimit(NumBuckets - 1)
\* sample values tried: the smallest, one inside a wider bucket, one above
\* the ceiling
HistInputs == {1, 3, Ceiling + 1}

\* the bucket add(value) increments: the one whose range holds value, the
\* last one for a value above the ceiling
BucketOfNoClamp(v) ==
  CHOOSE b \in 0 .. NumBuckets :
    /\ b \in Buckets => v <= BucketLimit(b)
    /\ \A a \in Buckets : a < b => v > BucketLimit(a)

BucketOf(v) ==
  IF v > Ceiling THEN NumBuckets - 1
  ELSE CHOOSE b \in Buckets :
         /\ v <= BucketLimit(b)
         /\ \A a \in Buckets : a < b => v > BucketLimit(a)

RECURSIVE CumulativeCount(_, _)
\* samples counted in buckets 0 .. b
CumulativeCount(bs, b) ==
  IF b < 0 THEN 0 ELSE bs[b] + CumulativeCount(bs, b - 1)

Hundred == 100

\* floor of the square root
ISqrt(x) == CHOOSE r \in 0 .. Hundred * (Ceiling + 2) :
              r * r <= x /\ (r + 1) * (r + 1) > x

\* percentile(p), in hundredths: the first bucket at which the running count
\* reaches p/100 of the samples, interpolated linearly between its bounds
Percentile(bs, n, p) ==
  IF n = 0 THEN 0
  ELSE LET reach == {b \in Buckets : Hundred * CumulativeCount(bs, b) >= n * p}
       IN  IF reach = {} THEN Hundred * Ceiling
           ELSE LET b == CHOOSE x \in reach : \A y \in reach : x <= y
                    leftSum == CumulativeCount(bs, b - 1)
                    rightSum == CumulativeCount(bs, b)
                    left == BucketLower(b)
                    right == BucketLimit(b)
                IN  IF rightSum = leftSum THEN Hundred * left
                    ELSE Hundred * left
                           + ((right - left) * (n * p - Hundred * leftSum))
                               \div (rightSum - leftSum)

\* average(), in hundredths
Average(s, n) == IF n = 0 THEN 0 ELSE (Hundred * s) \div n

\* standardDeviation(), in hundredths
StandardDeviation(s, sq, n) ==
  IF n = 0 THEN 0
  ELSE LET variance == (Hundred * Hundred * sq) \div n
                         - Average(s, n) * Average(s, n)
       IN  ISqrt(IF variance < 0 THEN 0 ELSE variance)

\* data(): the five fields from one capture of the state
HistogramData(bs, s, sq, n) ==
  [median |-> Percentile(bs, n, 50),
   percentile95 |-> Percentile(bs, n, 95),
   percentile99 |-> Percentile(bs, n, 99),
   average |-> Average(s, n),
   standard_deviation |-> StandardDeviation(s, sq, n)]

NoSnapshot == [taken |-> FALSE, afterClear |-> FALSE, history |-> 0,
               data |-> HistogramData([b \in Buckets |-> 0], 0, 0, 0)]

NoRet == [op |-> "none", ticker |-> 0, counter |-> 0, value |-> 0]

\* Ticker() : count_(0); the registry holds one Ticker per ticker id
Init ==
  /\ ndebug \in BOOLEAN
  /\ aborted = FALSE
  /\ count = [t \in ModelTickers |-> 0]
  /\ requested = [t \in ModelTickers |-> 0]
  /\ calls = [th \in Threads |-> 0]
  /\ ret = NoRet
  /\ buckets = [b \in Buckets |-> 0]
  /\ sum = 0
  /\ sumSquares = 0
  /\ num = 0
  /\ hpc = [th \in Threads |-> "idle"]
  /\ hval = [th \in Threads |-> 0]
  /\ started = 0
  /\ added = [v \in HistInputs |-> 0]
  /\ cleared = FALSE
  /\ overlapped = FALSE
  /\ snapshot = NoSnapshot

RECURSIVE TotalCalls(_, _)
\* recording calls completed by threads 1 .. n
TotalCalls(cs, n) == IF n = 0 THEN 0 ELSE cs[n] + TotalCalls(cs, n - 1)

CanCall(th) == ~aborted /\ TotalCalls(calls, NumThreads) < MaxCalls

\* count_++
TickerIncrement(c) == (c + 1) % CounterModulus

\* count_ += count, count an int
TickerAdd(c, d) == (c + IntToU64(d)) % CounterModulus

\* inline void recordTick()
TickerRecordTick(th, t) ==
  /\ CanCall(th)
  /\ count' = [count EXCEPT ![t] = TickerIncrement(@)]
  /\ requested' = [requested EXCEPT ![t] = (@ + 1) % CounterModulus]
  /\ calls' = [calls EXCEPT ![th] = @ + 1]
  /\ ret' = NoRet
  /\ UNCHANGED <<ndebug, aborted, histVars>>

\* inline void recordTick(int count)
TickerRecordTickInt(th, t, d) ==
  /\ CanCall(th)
  /\ count' = [count EXCEPT ![t] = TickerAdd(@, d)]
  /\ requested' = [requested EXCEPT ![t] = (@ + d) % CounterModulus]
  /\ calls' = [calls EXCEPT ![th] = @ + 1]
  /\ ret' = NoRet
  /\ UNCHANGED <<ndebug, aborted, histVars>>

\* inline uint64_t getCount()
TickerGetCount(th, t) ==
  /\ ~aborted
  /\ ret' = [op |-> "getCount", ticker |-> t, counter |-> count[t],
             value |-> count[t]]
  /\ UNCHANGED <<ndebug, aborted, count, requested, calls, histVars>>

\* Statistics::recordTick(Tickers tickerType, uint64_t count = 0), forwarding
\* to the Ticker of tickerType: the only overload that takes an argument is
\* Ticker::recordTick(int)
StatisticsRecordTickForward(c, cnt) == TickerAdd(c, U64ToInt(cnt))

StatisticsRecordTick(th, t, cnt) ==
  /\ CanCall(th)
  /\ count' = [count EXCEPT ![t] = StatisticsRecordTickForward(@, cnt)]
  /\ requested' = [requested EXCEPT ![t] = (@ + cnt) % CounterModulus]
  /\ calls' = [calls EXCEPT ![th] = @ + 1]
  /\ ret' = NoRet
  /\ UNCHANGED <<ndebug, aborted, histVars>>

\* long Statistics::getTickerCount(Tickers tickerType), forwarding to
\* Ticker::getCount() of tickerType
StatisticsGetTickerCount(th, t) ==
  /\ ~aborted
  /\ ret' = [op |-> "getTickerCount", ticker |-> t, counter |-> count[t],
             value |-> U64ToLong(count[t])]
  /\ UNCHANGED <<ndebug, aborted, count, requested, calls, histVars>>

\* assert(e) under the build: compiled out with NDEBUG, else abort() when e
\* is false
AssertPasses(e) == ndebug \/ e

\* inline void RecordTick(std::shared_ptr<Statistics> statistics,
\*                        Tickers ticker, uint64_t count = 1)
RecordTick(th, statistics, t, cnt) ==
  /\ CanCall(th)
  /\ IF ~AssertPasses(CatalogAssertions)
       THEN /\ aborted' = TRUE
            /\ ret' = NoRet
            /\ UNCHANGED <<ndebug, count, requested, calls, histVars>>
       ELSE /\ calls' = [calls EXCEPT ![th] = @ + 1]
            /\ IF statistics = "present"
                 THEN /\ count' = [count EXCEPT
                                     ![t] = StatisticsRecordTickForward(@, cnt)]
                      /\ requested' = [requested EXCEPT
                                         ![t] = (@ + cnt) % CounterModulus]
                 ELSE UNCHANGED <<count, requested>>
            /\ ret' = NoRet
            /\ UNCHANGED <<ndebug, aborted, histVars>>

(***************************************************************************)
(* Histogram operations.  add() updates four fields, each update atomic on *)
(* its own, so the steps of concurrent add() calls interleave.             *)
(***************************************************************************)
AllIdle == \A th \in Threads : hpc[th] = "idle"

IncrementBucket(bs, b) == [bs EXCEPT ![b] = @ + 1]

\* add(value) is entered
AddBegin(th, v) ==
  /\ ~aborted
  /\ hpc[th] = "idle"
  /\ started < MaxAdds
  /\ hpc' = [hpc EXCEPT ![th] = "bucket"]
  /\ hval' = [hval EXCEPT ![th] = v]
  /\ started' = started + 1
  /\ cleared' = FALSE
  /\ overlapped' = (overlapped \/ \E o \in Threads : hpc[o] # "idle")
  /\ snapshot' = NoSnapshot
  /\ UNCHANGED <<tickerVars, buckets, sum, sumSquares, num, added>>

\* add: the bucket of the value is incremented
AddBucket(th) ==
  /\ hpc[th] = "bucket"
  /\ buckets' = IncrementBucket(buckets, BucketOf(hval[th]))
  /\ hpc' = [hpc EXCEPT ![th] = "sum"]
  /\ UNCHANGED <<tickerVars, sum, sumSquares, num, hval, started, added,
                 cleared, overlapped>>
  /\ snapshot' = NoSnapshot

\* add: the value is accumulated into the running sum
AddSum(th) ==
  /\ hpc[th] = "sum"
  /\ sum' = sum + hval[th]
  /\ hpc' = [hpc EXCEPT ![th] = "sumSquares"]
  /\ UNCHANGED <<tickerVars, buckets, sumSquares, num, hval, started, added,
                 cleared, overlapped>>
  /\ snapshot' = NoSnapshot

\* add: the squared value is accumulated into the running sum of squares
AddSumSquares(th) ==
  /\ hpc[th] = "sumSquares"
  /\ sumSquares' = sumSquares + hval[th] * hval[th]
  /\ hpc' = [hpc EXCEPT ![th] = "num"]
  /\ UNCHANGED <<tickerVars, buckets, sum, num, hval, started, added,
                 cleared, overlapped>>
  /\ snapshot' = NoSnapshot

\* add: the sample count is incremented, and add returns
AddNum(th) ==
  /\ hpc[th] = "num"
  /\ num' = num + 1
  /\ hpc' = [hpc EXCEPT ![th] = "idle"]
  /\ added' = [added EXCEPT ![hval[th]] = @ + 1]
  /\ UNCHANGED <<tickerVars, buckets, sum, sumSquares, hval, started,
                 cleared, overlapped>>
  /\ snapshot' = NoSnapshot

ClearedKeepsNum(bs, s, sq, n) ==
  [buckets |-> [b \in Buckets |-> 0], sum |-> 0, sumSquares |-> 0, num |-> n]

\* the fields after clear()
Cleared(bs, s, sq, n) ==
  [buckets |-> [b \in Buckets |-> 0], sum |-> 0, sumSquares |-> 0, num |-> 0]

\* clear(); the caller ensures that no add() is in flight
Clear ==
  /\ ~aborted
  /\ AllIdle
  /\ LET c == Cleared(buckets, sum, sumSquares, num)
     IN  /\ buckets' = c.buckets
         /\ sum' = c.sum
         /\ sumSquares' = c.sumSquares
         /\ num' = c.num
  /\ added' = [v \in HistInputs |-> 0]
  /\ cleared' = TRUE
  /\ snapshot' = NoSnapshot
  /\ UNCHANGED <<tickerVars, hpc, hval, started, overlapped>>

\* data(HistogramData* data)
Data ==
  /\ ~aborted
  /\ snapshot' = [taken |-> TRUE, afterClear |-> cleared, history |-> started,
                  data |-> HistogramData(buckets, sum, sumSquares, num)]
  /\ UNCHANGED <<tickerVars, buckets, sum, sumSquares, num, hpc, hval,
                 started, added, cleared, overlapped>>

HistNext ==
  \/ \E th \in Threads, v \in HistInputs : AddBegin(th, v)
  \/ \E th \in Threads : AddBucket(th)
  \/ \E th \in Threads : AddSum(th)
  \/ \E th \in Threads : AddSumSquares(th)
  \/ \E th \in Threads : AddNum(th)
  \/ Clear
  \/ Data

SpecHist == Init /\ [][HistNext]_vars

Next ==
  \/ \E th \in Threads, t \in ModelTickers : TickerRecordTick(th, t)
  \/ \E th \in Threads, t \in ModelTickers, d \in IntInputs :
       TickerRecordTickInt(th, t, d)
  \/ \E th \in Threads, t \in ModelTickers : TickerGetCount(th, t)
  \/ \E th \in Threads, t \in ModelTickers, cnt \in U64Inputs :
       StatisticsRecordTick(th, t, cnt)
  \/ \E th \in Threads, t \in ModelTickers : StatisticsGetTickerCount(th, t)
  \/ \E th \in Threads, h \in Handles, t \in ModelTickers, cnt \in U64Inputs :
       RecordTick(th, h, t, cnt)

Spec == Init /\ [][Next]_vars

(***************************************************************************)
(* Properties                                                              *)
(***************************************************************************)
\* every recording call of the run has returned, and every thread issued some
AllCallsDone ==
  /\ TotalCalls(calls, NumThreads) = MaxCalls
  /\ \A th \in Threads : calls[th] > 0

\* C1: once every thread has completed its recording calls, the count of each
\* ticker equals the sum of all increments the callers asked for (modulo the
\* width of the counter): no update is lost or altered.
C1_CountIsSumOfIncrements ==
  AllCallsDone => \A t \in ModelTickers : count[t] = requested[t]

\* C2: RecordTick with an empty statistics handle returns normally and leaves
\* every ticker count and all histogram state unchanged.
C2_NullHandleIsNoOp ==
  [][\A th \in Threads, t \in ModelTickers, cnt \in U64Inputs :
       RecordTick(th, "null", t, cnt)
         => /\ ~aborted'
            /\ UNCHANGED <<count, buckets, sum, sumSquares, num>>]_vars

\* C3: every ticker the registry counts has a name, every ticker id below
\* TICKER_ENUM_MAX is the key of exactly one entry of TickersNameMap, every histogram id below HISTOGRAM_ENUM_MAX is the key
\* of exactly one entry of HistogramsNameMap, and each table has as many
\* entries as its enumeration has members.
C3_NameTables ==
  /\ \A t \in DOMAIN count :
       \E i \in DOMAIN TickersNameMap : TickersNameMap[i][1] = t
  /\ \A id \in 0 .. TICKER_ENUM_MAX - 1 :
       Cardinality({i \in DOMAIN TickersNameMap :
                      TickersNameMap[i][1] = id}) = 1
  /\ Len(TickersNameMap) = TICKER_ENUM_MAX
  /\ \A id \in 0 .. HISTOGRAM_ENUM_MAX - 1 :
       Cardinality({i \in DOMAIN HistogramsNameMap :
                      HistogramsNameMap[i][1] = id}) = 1
  /\ Len(HistogramsNameMap) = HISTOGRAM_ENUM_MAX

\* a recording call has gone through the wrapper, whose assertions read the
\* sizes of both tables, and the last id of each enumeration has its entry
C3_Witness ==
  /\ \E th \in Threads : calls[th] > 0
  /\ \E t \in ModelTickers : count[t] > 0
  /\ \E i \in DOMAIN TickersNameMap :
       TickersNameMap[i][1] = NUMBER_MULTIGET_BYTES_READ
  /\ \E i \in DOMAIN HistogramsNameMap : HistogramsNameMap[i][1] = DB_MULTIGET

\* C4: every call of RecordTick with a valid ticker, handle present or absent,
\* passes the two catalog assertions and returns instead of halting.
C4_AssertionsPass ==
  [][\A th \in Threads, h \in Handles, t \in ModelTickers, cnt \in U64Inputs :
       RecordTick(th, h, t, cnt) => ~aborted']_vars

\* C5: RecordTick with a present handle, ticker t and count c returns having
\* increased the count of t by exactly c, every other ticker count and all
\* histogram state unchanged.
C5_PresentHandleAddsCount ==
  [][\A th \in Threads, t \in ModelTickers, cnt \in U64Inputs :
       RecordTick(th, "present", t, cnt)
         => /\ ~aborted'
            /\ count' = [count EXCEPT ![t] = (@ + cnt) % CounterModulus]
            /\ UNCHANGED <<buckets, sum, sumSquares, num>>]_vars

ZeroHistogramData ==
  [median |-> 0, percentile95 |-> 0, percentile99 |-> 0, average |-> 0,
   standard_deviation |-> 0]

\* C6: after clear(), with no add() begun since, every bucket count, the
\* running sum, the running sum of squares and the sample count are zero, and
\* data() yields the all-zero snapshot, whatever was added before.
C6_ClearThenDataIsZero ==
  /\ cleared => /\ \A b \in Buckets : buckets[b] = 0
                /\ sum = 0
                /\ sumSquares = 0
                /\ num = 0
  /\ (snapshot.taken /\ snapshot.afterClear) => snapshot.data = ZeroHistogramData

\* data() was called right after a clear() that followed two or more add()s
C6_Witness ==
  /\ snapshot.taken
  /\ snapshot.afterClear
  /\ snapshot.history >= 2
  /\ cleared

\* C7: a recordTick() or recordTick(count) call never makes the count smaller
\* (a call that carries the counter past its width aside).
C7_TickerMonotonic ==
  [][\A th \in Threads, t \in ModelTickers :
       /\ (TickerRecordTick(th, t) /\ count[t] + 1 < CounterModulus)
            => count'[t] >= count[t]
       /\ \A d \in IntInputs :
            (TickerRecordTickInt(th, t, d) /\ count[t] + d < CounterModulus)
              => count'[t] >= count[t]]_vars

\* C8: Statistics::recordTick(t, delta) leaves the count of t at
\* (old count + delta) modulo the width of the counter, for every unsigned
\* delta.
C8_RecordTickAddsDelta ==
  [][\A th \in Threads, t \in ModelTickers, cnt \in U64Inputs :
       StatisticsRecordTick(th, t, cnt)
         => count'[t] = (count[t] + cnt) % CounterModulus]_vars

\* C9: the value getTickerCount returns equals the value getCount() returns.
C9_GetTickerCountIsGetCount ==
  ret.op = "getTickerCount" => ret.value = ret.counter

RECURSIVE SumOver(_, _)
\* the sum of f[x] over the x in S
SumOver(f, S) ==
  IF S = {} THEN 0
  ELSE LET x == CHOOSE y \in S : TRUE IN f[x] + SumOver(f, S \ {x})

\* value v belongs in bucket b
InBucket(v, b) ==
  \/ BucketLower(b) < v /\ v <= BucketLimit(b)
  \/ b = NumBuckets - 1 /\ v > Ceiling

\* C10: when no add() is in flight, every completed add(v) since the last
\* clear is counted in exactly the bucket v belongs in, the bucket counts sum
\* to the sample count, the sample count is the number of add() calls, the
\* running sum is the sum of the values and the running sum of squares the
\* sum of their squares.
C10_AddsAccountedFor ==
  AllIdle =>
    /\ \A b \in Buckets :
         buckets[b] = SumOver(added, {v \in HistInputs : InBucket(v, b)})
    /\ CumulativeCount(buckets, NumBuckets - 1) = num
    /\ num = SumOver(added, HistInputs)
    /\ sum = SumOver([v \in HistInputs |-> v * added[v]], HistInputs)
    /\ sumSquares = SumOver([v \in HistInputs |-> v * v * added[v]], HistInputs)

\* all add() calls have returned, two of them ran concurrently, and one added
\* a value above the ceiling
C10_Witness ==
  /\ AllIdle
  /\ overlapped
  /\ num >= 2
  /\ added[Ceiling + 1] >= 1

\* at every instant the bucket counts sum to the sample count and the running
\* sum is that of the completed adds; reads taken while add() calls are in
\* flight break this
FieldsInStep ==
  /\ CumulativeCount(buckets, NumBuckets - 1) = num
  /\ sum = SumOver([v \in HistInputs |-> v * added[v]], HistInputs)
=============================================================================
